---- MODULE Spec2Model ----
(***************************************************************************)
(* HeartRateMonitor (src/src/max30102/heartrate_monitor.py) with the       *)
(* signal pipeline of src/src/max30102/hrcalc.py.                          *)
(*                                                                         *)
(* Two threads share the monitor object without any lock: the acquisition  *)
(* thread (run_sensor) and a consumer thread that calls acknowledge_hrv()  *)
(* and stop_sensor() at arbitrary times.  Every action below is one source *)
(* statement that reads or writes a shared field, so the interleavings of  *)
(* the two threads are those of the interpreter.  pc holds the source line *)
(* the acquisition thread executes next ("l74" is line 74 of run_sensor,   *)
(* "u106" line 106 of _update_hrv_state, "c136" line 136 of                *)
(* _calculate_hrv); cpc does the same for the consumer.                    *)
(*                                                                         *)
(* Numbers.  time.time() is the integer variable now (seconds).  self.bpm  *)
(* and _last_bpm hold BpmUnit times the Python value: np.mean of one to    *)
(* four integers is a multiple of 1/12, so every published bpm is exact.   *)
(* self.spo holds the SpO2 value in millionths.  scipy's filter and        *)
(* find_peaks are library code: the peak list they return is an input of   *)
(* the evaluation, and so are the AC/DC ratios of the segments between     *)
(* peaks: both belong to the signal on the sensor (Signals), which changes *)
(* at a poll.  The clock is read at lines 102, 107, 112, 114 and 125; it   *)
(* is compared with a stored timestamp at lines 107 and 125 only, and Tick *)
(* advances it right before such a comparison.                             *)
(***************************************************************************)
EXTENDS Integers, Sequences, FiniteSets, TLC

VARIABLES
    \* HeartRateMonitor fields (heartrate_monitor.py:27-42)
    bpm, spo, hrv_state, hrv_buffer_ir, hrv_start_time, hrv_results,
    ir_data, red_data, stable_start_time, last_bpm,
    \* self._thread.stopped and the sensor object of run_sensor
    stopped, sensor_open,
    \* the Thread object self._thread names (0 before start_sensor, 1 the
    \* first, 2 the one a second start_sensor creates), the stopped attribute
    \* of the second object, and the position of the thread it runs
    thread, stopped2, pc2,
    \* run_sensor / _update_hrv_state / _calculate_hrv locals
    pc, num_bytes, collecting, bpms, result, finger_detected,
    stable_duration, elapsed,
    \* the consumer thread's position and the calls it has made
    cpc, calls,
    \* the main loop of pulse.py: its position, its counter, the outputs
    \* the alarm drives, and the bpm values the monitor has held since the
    \* iteration read hrm.bpm at line 24
    mpc, stable_readings, pattern, published,
    \* its locals finger_present and cached_hrv_results, and the hrv_status
    \* it last handed to the display
    finger_present, cached, hrv_status,
    \* the sensor: what is on it, and how often that has changed
    signal, changes,
    \* the clock and the counters that bound the model
    now, ticks, drains,
    \* history read only by the properties: the bpm values that
    \* _update_hrv_state has read since the stability anchor was set, the
    \* value calc_hrv_from_buffer returned in the current evaluation, self.bpm
    \* at the last poll, hrv_state at the last call of acknowledge_hrv, the
    \* time of the last idle evaluation without a finger and the stability
    \* time it discarded, whether the collection was due to end when the
    \* cycle began, every valid heart rate the evaluations have returned
    readings, computed, bpm_before, acked, discarded, due, hrs

vars == <<bpm, spo, hrv_state, hrv_buffer_ir, hrv_start_time, hrv_results,
          ir_data, red_data, stable_start_time, last_bpm, stopped,
          sensor_open, pc, num_bytes, collecting, bpms, result,
          finger_detected, stable_duration, elapsed, cpc, calls, mpc,
          stable_readings, pattern, published, signal,
          changes, now, ticks, drains, readings, computed, bpm_before,
          acked, discarded, due, hrs, thread, stopped2, pc2,
          finger_present, cached, hrv_status>>

monitor == <<bpm, spo, hrv_state, hrv_buffer_ir, hrv_start_time, hrv_results,
             ir_data, red_data, stable_start_time, last_bpm>>
locals  == <<num_bytes, collecting, bpms, result, finger_detected,
             stable_duration, elapsed>>
main    == <<mpc, stable_readings, pattern, published, finger_present,
             cached, hrv_status>>
sensor  == <<signal, changes, drains>>
clock   == <<now, ticks>>
second  == <<thread, stopped2, pc2>>
history == <<readings, computed, bpm_before, acked, discarded, due, hrs>>

-----------------------------------------------------------------------------
(* Program constants *)

HRV_IDLE       == "idle"
HRV_COLLECTING == "collecting"
HRV_READY      == "ready"

HRV_DURATION               == 60
HRV_MIN_STABLE_TIME        == 2
FINGER_DETECTION_THRESHOLD == 50000
SAMPLE_FREQ                == 25
BUFFER_SIZE                == 100
BPM_HISTORY                == 4
HRV_MIN_SAMPLES            == 750
INVALID                    == -999
BpmUnit                    == 12
\* pulse.py
STABLE_THRESHOLD           == 10
BPM_LOW                    == 50
BPM_CAUTION                == 90
BPM_HIGH                   == 120

\* None is the empty tuple and a present value x the one-element tuple Some(x).
None == <<>>
Some(x) == <<x>>

-----------------------------------------------------------------------------
(* Bounds of the model *)

\* Sensor drains with at least one sample that a run may perform.
MaxDrains == 4
\* Times the signal on the sensor may change in a run.
MaxChanges == 2
\* Calls of acknowledge_hrv and stop_sensor that a run may see.
MaxCalls == 1
\* Clock advances that a run may see.
MaxTicks == 2
\* Iterations at the end of a drain that the consumer may interleave with one
\* by one; the iterations before them run without a thread switch.
MaxFine == 1

\* Consecutive iterations with a finger that the main loop may count.
MaxReadings == 10

\* Drains of a run that is followed until the bpm history has overflowed.
MaxWindows == 6

\* Clock advances, in seconds.
TickSizes == {HRV_MIN_STABLE_TIME, HRV_DURATION}
\* Time that passes between two cycles, in seconds: less than the stability
\* time, and a whole collection period.
WaitSizes == {1, HRV_DURATION}

\* sensor.read_fifo(): <<red, ir>> with a finger on the sensor and without.
FingerOn  == <<60000, 60000>>
FingerOff == <<40000, 40000>>
\* find_peaks on a 100-sample window: peaks 30 samples apart (50 bpm), peaks
\* 20 samples apart (75 bpm), a single peak.
Peaks50 == <<10, 40, 70>>
Peaks75 == <<10, 30, 50, 70, 90>>
Peaks1  == <<50>>
\* Peaks 12 samples apart (125 bpm).
Peaks125 == <<10, 22, 34, 46, 58, 70, 82, 94>>

\* What can be on the sensor.  n is the sample count get_data_present()
\* reports for it, sample what read_fifo() returns, peaks what find_peaks
\* detects in a window of it, ratios the scaled AC/DC ratios of its segments
\* (100 lies inside (2, 184), 2 is the excluded bound).
Weak ==
    [n |-> 1, sample |-> FingerOn, peaks |-> Peaks1, ratios |-> <<>>]
Resting ==
    [n |-> HRV_MIN_SAMPLES, sample |-> FingerOn, peaks |-> Peaks50,
     ratios |-> <<100>>]
Faster ==
    [n |-> BUFFER_SIZE, sample |-> FingerOn, peaks |-> Peaks75,
     ratios |-> <<2>>]
Removed ==
    [n |-> BUFFER_SIZE, sample |-> FingerOff, peaks |-> Peaks1,
     ratios |-> <<>>]
Noise ==
    [n |-> BUFFER_SIZE, sample |-> FingerOff, peaks |-> Peaks50,
     ratios |-> <<100>>]
Racing ==
    [n |-> BUFFER_SIZE, sample |-> FingerOn, peaks |-> Peaks125,
     ratios |-> <<100>>]
Signals == {Weak, Resting, Faster, Racing, Removed, Noise}
\* Nothing has been polled yet.
NoSignal == [n |-> 0, sample |-> <<0, 0>>, peaks |-> <<>>, ratios |-> <<>>]

\* find_peaks on the HRV buffer: too few peaks, a regular 800 ms rhythm,
\* intervals of 2400 ms that the outlier filter removes.
HrvPeakLists == {<<>>, <<0, 20, 40>>, <<0, 60, 120>>}

-----------------------------------------------------------------------------
(* Sequence helpers *)

RECURSIVE Sum(_)
Sum(s) == IF s = <<>> THEN 0 ELSE Head(s) + Sum(Tail(s))

Abs(x) == IF x < 0 THEN -x ELSE x

\* np.diff
Diff(p) == [i \in 1..(Len(p) - 1) |-> p[i + 1] - p[i]]

\* The last n elements of s: what repeated pop(0) down to n leaves.
LastN(s, n) == IF Len(s) <= n THEN s ELSE SubSeq(s, Len(s) - n + 1, Len(s))

\* k copies of x
Repeat(x, k) == [i \in 1..k |-> x]

IsSorted(s) == \A i \in 1..(Len(s) - 1) : s[i] <= s[i + 1]
Count(s, x) == Cardinality({i \in 1..Len(s) : s[i] = x})
Sorted(s) ==
    CHOOSE t \in [1..Len(s) -> {s[i] : i \in 1..Len(s)}] :
        IsSorted(t) /\ \A i \in 1..Len(s) : Count(t, s[i]) = Count(s, s[i])

\* Twice np.median(s), s not empty.
Median2(s) ==
    LET t == Sorted(s)
        n == Len(s)
    IN  IF n % 2 = 1 THEN 2 * t[(n + 1) \div 2]
        ELSE t[n \div 2] + t[n \div 2 + 1]

-----------------------------------------------------------------------------
(* hrcalc.py *)

\* calc_hrv_metrics(peaks, 25): the validity and interval count of the
\* result dict (rmssd, pnn50 and mean_hr are floating point values that no
\* branch of the monitor reads).
calc_hrv_metrics(peaks) ==
    LET rr    == [i \in 1..(Len(peaks) - 1) |->
                    (Diff(peaks)[i] * 1000) \div SAMPLE_FREQ]
        kept  == {i \in 1..Len(rr) : rr[i] >= 300 /\ rr[i] <= 2000}
    IN  IF Len(peaks) < 3 THEN [valid |-> FALSE, num_intervals |-> 0]
        ELSE IF Cardinality(kept) < 2
             THEN [valid |-> FALSE, num_intervals |-> 0]
             ELSE [valid |-> TRUE, num_intervals |-> Cardinality(kept)]

\* calc_hrv_from_buffer(ir_buffer): peaks is what find_peaks returns for the
\* filtered buffer.
calc_hrv_from_buffer(ir_buffer, peaks) ==
    IF Len(ir_buffer) < HRV_MIN_SAMPLES
    THEN [valid |-> FALSE, num_intervals |-> 0]
    ELSE calc_hrv_metrics(peaks)

\* hr = int(60 / median_interval), median_interval = median(diff) / 25.
HeartRate(peaks) == (2 * 60 * SAMPLE_FREQ) \div Median2(Diff(peaks))

\* The calibration polynomial, in millionths:
\* -45.060 R^2 / 10000 + 30.054 R / 100 + 94.845
Calibration(R) == 94845000 + 300540 * R - 4506 * R * R

\* calc_hr_and_spo2(ir_data, red_data): the five values of its return
\* statement.  ratios holds the scaled ratio of every usable segment
\* between two peaks.
calc_hr_and_spo2(peaks, ratios) ==
    LET two      == Len(peaks) >= 2
        hr_valid == two /\ Median2(Diff(peaks)) > 0
        hr       == IF hr_valid THEN HeartRate(peaks) ELSE INVALID
        some     == two /\ Len(ratios) > 0
        ratio    == IF some THEN Sum(ratios) \div Len(ratios) ELSE 0
        spo2_ok  == some /\ 2 < ratio /\ ratio < 184
        spo2     == IF spo2_ok THEN Calibration(ratio) ELSE INVALID
        metrics  == IF some THEN calc_hrv_metrics(peaks) ELSE <<>>
    IN  <<hr, hr_valid, spo2, spo2_ok, metrics>>

\* SignalPipeline.estimate_hr_spo2 of the specification: the four values
\* (hr, hr_valid, spo2, spo2_valid) that run_sensor unpacks.
estimate_hr_spo2(peaks, ratios) ==
    SubSeq(calc_hr_and_spo2(peaks, ratios), 1, 4)

\* np.mean(bpms), in units of 1 / BpmUnit
Mean(s) == (BpmUnit * Sum(s)) \div Len(s)

\* np.mean(data) < FINGER_DETECTION_THRESHOLD
BelowThreshold(data) == Sum(data) < FINGER_DETECTION_THRESHOLD * Len(data)

\* Line 84: both channel means below the finger detection threshold.
NoFinger(ir, red) == BelowThreshold(ir) /\ BelowThreshold(red)

\* The pairs <<bpm, _last_bpm>> of published values that deviate by exactly
\* 10% and for which the double precision comparison of line 106 is true
\* all the same: abs(75.0 - 83.33333333333333) = 8.33333333333333 is less
\* than 83.33333333333333 * 0.1 = 8.333333333333334.  For every other pair
\* of means of one to four of the heart rates 50, 75 and 125 the comparison
\* in double precision agrees with the exact one.
RoundedBelow == {<<75 * BpmUnit, 1000>>}

\* Line 106: abs(self.bpm - self._last_bpm) < self._last_bpm * 0.1
IsStable(b, last) ==
    \/ 10 * Abs(b - last) < last
    \/ <<b, last>> \in RoundedBelow

-----------------------------------------------------------------------------
(* State after HeartRateMonitor.__init__ *)

Init ==
    /\ bpm = 0
    /\ spo = 0
    /\ hrv_state = HRV_IDLE
    /\ hrv_buffer_ir = <<>>
    /\ hrv_start_time = None
    /\ hrv_results = None
    /\ ir_data = <<>>
    /\ red_data = <<>>
    /\ stable_start_time = None
    /\ last_bpm = 0
    /\ stopped = FALSE
    /\ thread = 0
    /\ finger_present = FALSE
    /\ cached = None
    /\ hrv_status = "idle"
    /\ stopped2 = None
    /\ pc2 = "not_started"
    /\ sensor_open = FALSE
    /\ pc = "not_started"
    /\ num_bytes = 0
    /\ collecting = FALSE
    /\ bpms = <<>>
    /\ result = <<>>
    /\ finger_detected = FALSE
    /\ stable_duration = 0
    /\ elapsed = 0
    /\ cpc = "idle"
    /\ calls = 0
    /\ mpc = "m24"
    /\ stable_readings = 0
    /\ pattern = "off"
    /\ published = {}
    /\ signal = NoSignal
    /\ changes = 0
    /\ now = 0
    /\ ticks = 0
    /\ drains = 0
    /\ readings = {}
    /\ computed = None
    /\ bpm_before = 0
    /\ acked = HRV_IDLE
    /\ discarded = None
    /\ due = FALSE
    /\ hrs = <<>>

-----------------------------------------------------------------------------
(* run_sensor: the acquisition thread *)

\* start_sensor (158-161): the thread is created with stopped = False.
start_sensor ==
    /\ pc = "not_started"
    /\ cpc = "idle"
    /\ thread' = 1
    /\ stopped' = FALSE
    /\ pc' = "l45"
    /\ UNCHANGED <<monitor, sensor_open, locals, cpc, calls, main, sensor,
                   clock, history, stopped2, pc2>>

\* Lines 45-48: open the sensor, start with empty windows and history.
run_sensor_begin ==
    /\ pc = "l45"
    /\ sensor_open' = TRUE
    /\ ir_data' = <<>>
    /\ red_data' = <<>>
    /\ bpms' = <<>>
    /\ pc' = "l51"
    /\ UNCHANGED <<bpm, spo, hrv_state, hrv_buffer_ir, hrv_start_time,
                   hrv_results, stable_start_time, last_bpm, stopped,
                   num_bytes, collecting, result, finger_detected,
                   stable_duration, elapsed, cpc, calls, main, sensor, clock,
                   history, second>>

\* self._thread.stopped: the attribute of the Thread object that
\* self._thread names now, None while a second start_sensor is between
\* creating the object (159) and setting the attribute (160).
Flag == IF thread = 2 THEN stopped2 ELSE Some(stopped)

\* Line 51: while not self._thread.stopped; an AttributeError ends the
\* thread.
run_sensor_loop ==
    /\ pc = "l51"
    /\ pc' = IF Flag = None THEN "raised"
             ELSE IF Flag[1] THEN "l93" ELSE "l53"
    /\ UNCHANGED <<monitor, stopped, sensor_open, locals, cpc, calls, main,
                   sensor, clock, history, second>>

\* Lines 53-54: num_bytes = sensor.get_data_present().  The poll reports
\* no sample, or the samples of the signal on the sensor; S are the
\* signals that may come onto it and limit the drains of the run.
Poll(S, limit) ==
    /\ pc = "l53"
    /\ \E s \in S \cup {signal}, none \in BOOLEAN :
        LET n == IF none THEN 0 ELSE s.n
            changed == s # signal /\ signal # NoSignal
        IN  /\ n = 0 => s = signal
            /\ n > 0 => drains < limit
            /\ changed => changes < MaxChanges
            /\ signal' = s
            /\ changes' = IF changed THEN changes + 1 ELSE changes
            /\ num_bytes' = n
            /\ drains' = IF n > 0 THEN drains + 1 ELSE drains
            /\ pc' = IF n > 0 THEN "l57" ELSE "l91"
    /\ result' = <<>>
    /\ bpm_before' = bpm
    /\ due' = /\ hrv_state = HRV_COLLECTING
              /\ bpm > 0
              /\ hrv_start_time # None
              /\ now - hrv_start_time[1] >= HRV_DURATION
    /\ UNCHANGED <<monitor, stopped, sensor_open, collecting, bpms,
                   finger_detected, stable_duration, elapsed, cpc, calls,
                   main, clock, readings, computed, acked, discarded, hrs,
                   second>>

run_sensor_poll == Poll(Signals, MaxDrains)

\* The signals of a run that is followed until the bpm history has
\* overflowed: two heart rates and a drain that yields no valid one.
HistorySignals == {Weak, Resting, Faster}

run_sensor_poll_history == Poll(HistorySignals, MaxWindows)

\* Lines 56-67 for the first num_bytes - MaxFine samples of a drain, run
\* without a thread switch.
run_sensor_read_burst ==
    /\ pc = "l57"
    /\ num_bytes > MaxFine
    /\ LET k == num_bytes - MaxFine
           ir == signal.sample[2]
           red == signal.sample[1]
       IN  /\ ir_data' = ir_data \o Repeat(ir, k)
           /\ red_data' = red_data \o Repeat(red, k)
           /\ hrv_buffer_ir' = IF hrv_state = HRV_COLLECTING
                               THEN hrv_buffer_ir \o Repeat(ir, k)
                               ELSE hrv_buffer_ir
    /\ num_bytes' = MaxFine
    /\ UNCHANGED <<bpm, spo, hrv_state, hrv_start_time, hrv_results,
                   stable_start_time, last_bpm, stopped, sensor_open, pc,
                   collecting, bpms, result, finger_detected, stable_duration,
                   elapsed, cpc, calls, main, sensor, clock, history, second>>

\* Lines 57-66: read one sample, append it to both windows, test hrv_state.
run_sensor_read ==
    /\ pc = "l57"
    /\ num_bytes > 0
    /\ num_bytes <= MaxFine
    /\ num_bytes' = num_bytes - 1
    /\ ir_data' = Append(ir_data, signal.sample[2])
    /\ red_data' = Append(red_data, signal.sample[1])
    /\ collecting' = (hrv_state = HRV_COLLECTING)
    /\ pc' = "l67"
    /\ UNCHANGED <<bpm, spo, hrv_state, hrv_buffer_ir, hrv_start_time,
                   hrv_results, stable_start_time, last_bpm, stopped,
                   sensor_open, bpms, result, finger_detected,
                   stable_duration, elapsed, cpc, calls, main, sensor, clock,
                   history, second>>

\* Line 67: self.hrv_buffer_ir.append(ir), then the inner loop test (56).
run_sensor_collect ==
    /\ pc = "l67"
    /\ hrv_buffer_ir' = IF collecting
                        THEN Append(hrv_buffer_ir, signal.sample[2])
                        ELSE hrv_buffer_ir
    /\ pc' = IF num_bytes > 0 THEN "l57" ELSE "l69"
    /\ UNCHANGED <<bpm, spo, hrv_state, hrv_start_time, hrv_results, ir_data,
                   red_data, stable_start_time, last_bpm, stopped,
                   sensor_open, locals, cpc, calls, main, sensor, clock,
                   history, second>>

\* Lines 69-73 without the test of line 73.
run_sensor_trim_untested ==
    /\ pc = "l69"
    /\ ir_data' = LastN(ir_data, BUFFER_SIZE)
    /\ red_data' = LastN(red_data, BUFFER_SIZE)
    /\ pc' = "l74"
    /\ UNCHANGED <<bpm, spo, hrv_state, hrv_buffer_ir, hrv_start_time,
                   hrv_results, stable_start_time, last_bpm, stopped,
                   sensor_open, locals, cpc, calls, main, sensor, clock,
                   history, second>>

\* Lines 69-73: pop the oldest samples down to 100, then test for a full
\* window.
run_sensor_trim ==
    /\ pc = "l69"
    /\ ir_data' = LastN(ir_data, BUFFER_SIZE)
    /\ red_data' = LastN(red_data, BUFFER_SIZE)
    /\ pc' = IF Len(ir_data') = BUFFER_SIZE THEN "l74" ELSE "l89"
    /\ UNCHANGED <<bpm, spo, hrv_state, hrv_buffer_ir, hrv_start_time,
                   hrv_results, stable_start_time, last_bpm, stopped,
                   sensor_open, locals, cpc, calls, main, sensor, clock,
                   history, second>>

\* Line 74 as written: calc_hr_and_spo2 returns five values and the
\* assignment has four targets, so the unpacking raises ValueError, which
\* nothing catches: the thread ends without reaching sensor.shutdown().
Unpacks(values) == Len(values) = 4

run_sensor_evaluate ==
    /\ pc = "l74"
    /\ LET values == calc_hr_and_spo2(signal.peaks, signal.ratios)
       IN  IF Unpacks(values)
           THEN result' = values /\ pc' = "l75"
           ELSE result' = result /\ pc' = "raised"
    /\ UNCHANGED <<monitor, stopped, sensor_open, num_bytes, collecting, bpms,
                   finger_detected, stable_duration, elapsed, cpc, calls,
                   main, sensor, clock, history, second>>

\* Line 74 with a pipeline that returns the four values of
\* estimate_hr_spo2.
run_sensor_estimate ==
    /\ pc = "l74"
    /\ result' = estimate_hr_spo2(signal.peaks, signal.ratios)
    /\ pc' = "l75"
    /\ UNCHANGED <<monitor, stopped, sensor_open, num_bytes, collecting, bpms,
                   finger_detected, stable_duration, elapsed, cpc, calls,
                   main, sensor, clock, history, second>>

\* Lines 75-78: publish spo.
run_sensor_spo ==
    /\ pc = "l75"
    /\ spo' = IF result[4] THEN result[3] ELSE 0
    /\ pc' = "l79"
    /\ UNCHANGED <<bpm, hrv_state, hrv_buffer_ir, hrv_start_time, hrv_results,
                   ir_data, red_data, stable_start_time, last_bpm, stopped,
                   sensor_open, locals, cpc, calls, main, sensor, clock,
                   history, second>>

\* The main loop is between its first and its last read of hrm.bpm in an
\* iteration that drives an alarm pattern.
Selecting == mpc \in {"m34", "m34b", "m39"}

\* Lines 79-83 where line 81-82 never pops: the history only grows.
run_sensor_bpm_untrimmed ==
    /\ pc = "l79"
    /\ bpms' = IF result[2] THEN Append(bpms, result[1]) ELSE bpms
    /\ bpm' = IF result[2] THEN Mean(bpms') ELSE bpm
    /\ hrs' = IF result[2] THEN Append(hrs, result[1]) ELSE hrs
    /\ published' = IF Selecting THEN published \cup {bpm'} ELSE published
    /\ pc' = IF result[2] THEN "l84" ELSE "l89"
    /\ UNCHANGED <<spo, hrv_state, hrv_buffer_ir, hrv_start_time, hrv_results,
                   ir_data, red_data, stable_start_time, last_bpm, stopped,
                   sensor_open, num_bytes, collecting, result,
                   finger_detected, stable_duration, elapsed, cpc, calls, mpc,
                   stable_readings, pattern, finger_present, cached,
                   hrv_status, sensor, clock, readings, computed, bpm_before,
                   acked, discarded, due, second>>

\* Lines 79-83: a valid hr enters the history and the mean is published.
run_sensor_bpm ==
    /\ pc = "l79"
    /\ bpms' = IF result[2] THEN LastN(Append(bpms, result[1]), BPM_HISTORY)
               ELSE bpms
    /\ bpm' = IF result[2] THEN Mean(bpms') ELSE bpm
    /\ hrs' = IF result[2] THEN Append(hrs, result[1]) ELSE hrs
    /\ published' = IF Selecting THEN published \cup {bpm'} ELSE published
    /\ pc' = IF result[2] THEN "l84" ELSE "l89"
    /\ UNCHANGED <<spo, hrv_state, hrv_buffer_ir, hrv_start_time, hrv_results,
                   ir_data, red_data, stable_start_time, last_bpm, stopped,
                   sensor_open, num_bytes, collecting, result,
                   finger_detected, stable_duration, elapsed, cpc, calls, mpc,
                   stable_readings, pattern, finger_present, cached,
                   hrv_status, sensor, clock, readings, computed, bpm_before,
                   acked, discarded, due, second>>

\* Lines 84-85 without the override.
run_sensor_no_override ==
    /\ pc = "l84"
    /\ bpm' = bpm
    /\ pc' = "l89"
    /\ UNCHANGED <<spo, hrv_state, hrv_buffer_ir, hrv_start_time, hrv_results,
                   ir_data, red_data, stable_start_time, last_bpm, stopped,
                   sensor_open, locals, cpc, calls, main, sensor, clock,
                   history, second>>

\* Lines 84-85: the finger presence override.
run_sensor_override ==
    /\ pc = "l84"
    /\ bpm' = IF NoFinger(ir_data, red_data) THEN 0 ELSE bpm
    /\ published' = IF Selecting THEN published \cup {bpm'} ELSE published
    /\ pc' = "l89"
    /\ UNCHANGED <<spo, hrv_state, hrv_buffer_ir, hrv_start_time, hrv_results,
                   ir_data, red_data, stable_start_time, last_bpm, stopped,
                   sensor_open, locals, cpc, calls, mpc, stable_readings,
                   pattern, finger_present, cached, hrv_status, sensor, clock,
                   history, second>>

\* Line 91: time.sleep(LOOP_TIME), back to the loop test.
run_sensor_sleep ==
    /\ pc = "l91"
    /\ pc' = "l51"
    /\ UNCHANGED <<monitor, stopped, sensor_open, locals, cpc, calls, main,
                   sensor, clock, history, second>>

\* Lines 53 and 57: the driver call (get_data_present, read_fifo) raises.
\* run_sensor has no handler, so the thread ends there, the sensor open.
sensor_fails ==
    /\ pc \in {"l53", "l57"}
    /\ pc' = "failed"
    /\ UNCHANGED <<monitor, stopped, sensor_open, locals, cpc, calls, main,
                   sensor, clock, history, second>>

\* Line 93: sensor.shutdown(); the thread ends.
run_sensor_shutdown ==
    /\ pc = "l93"
    /\ sensor_open' = FALSE
    /\ pc' = "done"
    /\ UNCHANGED <<monitor, stopped, locals, cpc, calls, main, sensor, clock,
                   history, second>>

-----------------------------------------------------------------------------
(* _update_hrv_state (95-130), called at line 89 *)

\* Line 97: finger_detected = self.bpm > 0
update_finger ==
    /\ pc = "l89"
    /\ finger_detected' = (bpm > 0)
    /\ readings' = IF stable_start_time = None THEN readings
                   ELSE readings \cup {bpm}
    /\ computed' = None
    /\ pc' = "u99"
    /\ UNCHANGED <<monitor, stopped, sensor_open, num_bytes, collecting, bpms,
                   result, stable_duration, elapsed, cpc, calls, main, sensor,
                   clock, bpm_before, acked, discarded, due, hrs, second>>

\* Lines 99-100: if self.hrv_state == HRV_IDLE, if finger_detected
update_idle_test ==
    /\ pc = "u99"
    /\ pc' = IF hrv_state = HRV_IDLE
             THEN (IF finger_detected THEN "u101" ELSE "u117")
             ELSE "u119"
    /\ UNCHANGED <<monitor, stopped, sensor_open, locals, cpc, calls, main,
                   sensor, clock, history, second>>

\* Line 101: if self._stable_start_time is None
update_anchor_test ==
    /\ pc = "u101"
    /\ pc' = IF stable_start_time = None THEN "u102" ELSE "u106"
    /\ UNCHANGED <<monitor, stopped, sensor_open, locals, cpc, calls, main,
                   sensor, clock, history, second>>

\* Lines 102 and 114: self._stable_start_time = time.time()
update_anchor_time ==
    /\ pc \in {"u102", "u114"}
    /\ stable_start_time' = Some(now)
    /\ readings' = {}
    /\ pc' = IF pc = "u102" THEN "u103" ELSE "u115"
    /\ UNCHANGED <<bpm, spo, hrv_state, hrv_buffer_ir, hrv_start_time,
                   hrv_results, ir_data, red_data, last_bpm, stopped,
                   sensor_open, locals, cpc, calls, main, sensor, clock,
                   computed, bpm_before, acked, discarded, due, hrs, second>>

\* Lines 103 and 115: self._last_bpm = self.bpm
update_anchor_bpm ==
    /\ pc \in {"u103", "u115"}
    /\ last_bpm' = bpm
    /\ readings' = IF stable_start_time = None THEN {} ELSE {bpm}
    /\ pc' = "l91"
    /\ UNCHANGED <<bpm, spo, hrv_state, hrv_buffer_ir, hrv_start_time,
                   hrv_results, ir_data, red_data, stable_start_time, stopped,
                   sensor_open, locals, cpc, calls, main, sensor, clock,
                   computed, bpm_before, acked, discarded, due, hrs, second>>

\* Line 106 with <= in place of <.
update_stable_test_inclusive ==
    /\ pc = "u106"
    /\ pc' = IF 10 * Abs(bpm - last_bpm) <= last_bpm THEN "u107" ELSE "u114"
    /\ UNCHANGED <<monitor, stopped, sensor_open, locals, cpc, calls, main,
                   sensor, clock, history, second>>

\* Line 106: if abs(self.bpm - self._last_bpm) < self._last_bpm * 0.1
update_stable_test ==
    /\ pc = "u106"
    /\ pc' = IF IsStable(bpm, last_bpm) THEN "u107" ELSE "u114"
    /\ UNCHANGED <<monitor, stopped, sensor_open, locals, cpc, calls, main,
                   sensor, clock, history, second>>

\* Lines 107-108: stable_duration = time.time() - self._stable_start_time,
\* a TypeError when the anchor has been cleared since line 101.
update_duration ==
    /\ pc = "u107"
    /\ stable_duration' = IF stable_start_time = None THEN stable_duration
                          ELSE now - stable_start_time[1]
    /\ pc' = IF stable_start_time = None THEN "raised"
             ELSE IF stable_duration' >= HRV_MIN_STABLE_TIME
                  THEN "u110" ELSE "l91"
    /\ UNCHANGED <<monitor, stopped, sensor_open, num_bytes, collecting, bpms,
                   result, finger_detected, elapsed, cpc, calls, main, sensor,
                   clock, history, second>>

\* Line 110: self.hrv_state = HRV_COLLECTING
update_collect_state ==
    /\ pc = "u110"
    /\ hrv_state' = HRV_COLLECTING
    /\ pc' = "u111"
    /\ UNCHANGED <<bpm, spo, hrv_buffer_ir, hrv_start_time, hrv_results,
                   ir_data, red_data, stable_start_time, last_bpm, stopped,
                   sensor_open, locals, cpc, calls, main, sensor, clock,
                   history, second>>

\* Line 111: self.hrv_buffer_ir = []
update_collect_buffer ==
    /\ pc = "u111"
    /\ hrv_buffer_ir' = <<>>
    /\ pc' = "u112"
    /\ UNCHANGED <<bpm, spo, hrv_state, hrv_start_time, hrv_results, ir_data,
                   red_data, stable_start_time, last_bpm, stopped,
                   sensor_open, locals, cpc, calls, main, sensor, clock,
                   history, second>>

\* Line 112: self.hrv_start_time = time.time()
update_collect_start ==
    /\ pc = "u112"
    /\ hrv_start_time' = Some(now)
    /\ pc' = "l91"
    /\ UNCHANGED <<bpm, spo, hrv_state, hrv_buffer_ir, hrv_results, ir_data,
                   red_data, stable_start_time, last_bpm, stopped,
                   sensor_open, locals, cpc, calls, main, sensor, clock,
                   history, second>>

\* The time the stability anchor has accrued.
Accrued == IF stable_start_time = None THEN 0 ELSE now - stable_start_time[1]

\* Line 117 without the assignment.
update_anchor_kept ==
    /\ pc = "u117"
    /\ discarded' = Some([at |-> now, accrued |-> Accrued])
    /\ pc' = "l91"
    /\ UNCHANGED <<monitor, stopped, sensor_open, locals, cpc, calls, main,
                   sensor, clock, readings, computed, bpm_before, acked, due,
                   hrs, second>>

\* Line 117: self._stable_start_time = None (idle, no finger)
update_anchor_clear ==
    /\ pc = "u117"
    /\ stable_start_time' = None
    /\ readings' = {}
    /\ discarded' = Some([at |-> now, accrued |-> Accrued])
    /\ pc' = "l91"
    /\ UNCHANGED <<bpm, spo, hrv_state, hrv_buffer_ir, hrv_start_time,
                   hrv_results, ir_data, red_data, last_bpm, stopped,
                   sensor_open, locals, cpc, calls, main, sensor, clock,
                   computed, bpm_before, acked, due, hrs, second>>

\* Lines 119-120 without the finger test.
update_collecting_no_finger_test ==
    /\ pc = "u119"
    /\ pc' = IF hrv_state = HRV_COLLECTING THEN "u125" ELSE "l91"
    /\ UNCHANGED <<monitor, stopped, sensor_open, locals, cpc, calls, main,
                   sensor, clock, history, second>>

\* Lines 119-120 and 129-130: elif self.hrv_state == HRV_COLLECTING,
\* if not finger_detected; in any other state nothing is done.
update_collecting_test ==
    /\ pc = "u119"
    /\ pc' = IF hrv_state = HRV_COLLECTING
             THEN (IF finger_detected THEN "u125" ELSE "u121")
             ELSE "l91"
    /\ UNCHANGED <<monitor, stopped, sensor_open, locals, cpc, calls, main,
                   sensor, clock, history, second>>

\* Line 121: self.hrv_state = HRV_IDLE (finger lost)
update_lost_state ==
    /\ pc = "u121"
    /\ hrv_state' = HRV_IDLE
    /\ pc' = "u122"
    /\ UNCHANGED <<bpm, spo, hrv_buffer_ir, hrv_start_time, hrv_results,
                   ir_data, red_data, stable_start_time, last_bpm, stopped,
                   sensor_open, locals, cpc, calls, main, sensor, clock,
                   history, second>>

\* Line 122: self.hrv_buffer_ir = []
update_lost_buffer ==
    /\ pc = "u122"
    /\ hrv_buffer_ir' = <<>>
    /\ pc' = "u123"
    /\ UNCHANGED <<bpm, spo, hrv_state, hrv_start_time, hrv_results, ir_data,
                   red_data, stable_start_time, last_bpm, stopped,
                   sensor_open, locals, cpc, calls, main, sensor, clock,
                   history, second>>

\* Line 123: self._stable_start_time = None
update_lost_anchor ==
    /\ pc = "u123"
    /\ stable_start_time' = None
    /\ readings' = {}
    /\ pc' = "l91"
    /\ UNCHANGED <<bpm, spo, hrv_state, hrv_buffer_ir, hrv_start_time,
                   hrv_results, ir_data, red_data, last_bpm, stopped,
                   sensor_open, locals, cpc, calls, main, sensor, clock,
                   computed, bpm_before, acked, discarded, due, hrs, second>>

\* Lines 125-126 without the test of elapsed.
update_elapsed_untested ==
    /\ pc = "u125"
    /\ elapsed' = IF hrv_start_time = None THEN elapsed
                  ELSE now - hrv_start_time[1]
    /\ pc' = IF hrv_start_time = None THEN "raised" ELSE "c134"
    /\ UNCHANGED <<monitor, stopped, sensor_open, num_bytes, collecting, bpms,
                   result, finger_detected, stable_duration, cpc, calls, main,
                   sensor, clock, history, second>>

\* Lines 125-126: elapsed = time.time() - self.hrv_start_time
update_elapsed ==
    /\ pc = "u125"
    /\ elapsed' = IF hrv_start_time = None THEN elapsed
                  ELSE now - hrv_start_time[1]
    /\ pc' = IF hrv_start_time = None THEN "raised"
             ELSE IF elapsed' >= HRV_DURATION THEN "c134" ELSE "l91"
    /\ UNCHANGED <<monitor, stopped, sensor_open, num_bytes, collecting, bpms,
                   result, finger_detected, stable_duration, cpc, calls, main,
                   sensor, clock, history, second>>

-----------------------------------------------------------------------------
(* _calculate_hrv (132-140), called at line 127 *)

\* Line 134: self.hrv_results = hrcalc.calc_hrv_from_buffer(...)
calculate_results ==
    /\ pc = "c134"
    /\ \E peaks \in HrvPeakLists :
        computed' = Some(calc_hrv_from_buffer(hrv_buffer_ir, peaks))
    /\ hrv_results' = computed'
    /\ pc' = "c136"
    /\ UNCHANGED <<bpm, spo, hrv_state, hrv_buffer_ir, hrv_start_time,
                   ir_data, red_data, stable_start_time, last_bpm, stopped,
                   sensor_open, locals, cpc, calls, main, sensor, clock,
                   readings, bpm_before, acked, discarded, due, hrs, second>>

\* Line 136, left operand: if self.hrv_results
calculate_present ==
    /\ pc = "c136"
    /\ pc' = IF hrv_results = None THEN "c139" ELSE "c136v"
    /\ UNCHANGED <<monitor, stopped, sensor_open, locals, cpc, calls, main,
                   sensor, clock, history, second>>

\* Line 136, right operand: self.hrv_results['valid'], a TypeError when the
\* field has been set to None since the left operand was read.
calculate_valid ==
    /\ pc = "c136v"
    /\ pc' = IF hrv_results = None THEN "raised"
             ELSE IF hrv_results[1].valid THEN "c137" ELSE "c139"
    /\ UNCHANGED <<monitor, stopped, sensor_open, locals, cpc, calls, main,
                   sensor, clock, history, second>>

\* Line 137: self.hrv_state = HRV_READY
calculate_ready ==
    /\ pc = "c137"
    /\ hrv_state' = HRV_READY
    /\ pc' = "l91"
    /\ UNCHANGED <<bpm, spo, hrv_buffer_ir, hrv_start_time, hrv_results,
                   ir_data, red_data, stable_start_time, last_bpm, stopped,
                   sensor_open, locals, cpc, calls, main, sensor, clock,
                   history, second>>

\* Line 139: self.hrv_state = HRV_IDLE
calculate_idle ==
    /\ pc = "c139"
    /\ hrv_state' = HRV_IDLE
    /\ pc' = "c140"
    /\ UNCHANGED <<bpm, spo, hrv_buffer_ir, hrv_start_time, hrv_results,
                   ir_data, red_data, stable_start_time, last_bpm, stopped,
                   sensor_open, locals, cpc, calls, main, sensor, clock,
                   history, second>>

\* Line 140: self._stable_start_time = None
calculate_anchor ==
    /\ pc = "c140"
    /\ stable_start_time' = None
    /\ readings' = {}
    /\ pc' = "l91"
    /\ UNCHANGED <<bpm, spo, hrv_state, hrv_buffer_ir, hrv_start_time,
                   hrv_results, ir_data, red_data, last_bpm, stopped,
                   sensor_open, locals, cpc, calls, main, sensor, clock,
                   computed, bpm_before, acked, discarded, due, hrs, second>>

-----------------------------------------------------------------------------
(* The consumer thread *)

\* acknowledge_hrv, line 144: self.hrv_state = HRV_IDLE
acknowledge_state ==
    /\ cpc = "idle"
    /\ pc # "not_started"
    /\ calls < MaxCalls
    /\ calls' = calls + 1
    /\ acked' = hrv_state
    /\ hrv_state' = HRV_IDLE
    /\ cpc' = "a145"
    /\ UNCHANGED <<bpm, spo, hrv_buffer_ir, hrv_start_time, hrv_results,
                   ir_data, red_data, stable_start_time, last_bpm, stopped,
                   sensor_open, pc, locals, main, sensor, clock, readings,
                   computed, bpm_before, discarded, due, hrs, second>>

\* Line 145: self.hrv_results = None
acknowledge_results ==
    /\ cpc = "a145"
    /\ hrv_results' = None
    /\ cpc' = "a146"
    /\ UNCHANGED <<bpm, spo, hrv_state, hrv_buffer_ir, hrv_start_time,
                   ir_data, red_data, stable_start_time, last_bpm, stopped,
                   sensor_open, pc, locals, calls, main, sensor, clock,
                   history, second>>

\* Line 146: self.hrv_buffer_ir = []
acknowledge_buffer ==
    /\ cpc = "a146"
    /\ hrv_buffer_ir' = <<>>
    /\ cpc' = "a147"
    /\ UNCHANGED <<bpm, spo, hrv_state, hrv_start_time, hrv_results, ir_data,
                   red_data, stable_start_time, last_bpm, stopped,
                   sensor_open, pc, locals, calls, main, sensor, clock,
                   history, second>>

\* Line 147: self._stable_start_time = None, and the call returns.
acknowledge_anchor ==
    /\ cpc = "a147"
    /\ stable_start_time' = None
    /\ readings' = {}
    /\ cpc' = "idle"
    /\ UNCHANGED <<bpm, spo, hrv_state, hrv_buffer_ir, hrv_start_time,
                   hrv_results, ir_data, red_data, last_bpm, stopped,
                   sensor_open, pc, locals, calls, main, sensor, clock,
                   computed, bpm_before, acked, discarded, due, hrs, second>>

\* stop_sensor, line 164: self._thread.stopped = True
stop_flag ==
    /\ cpc = "idle"
    /\ pc # "not_started"
    /\ calls < MaxCalls
    /\ calls' = calls + 1
    /\ stopped' = IF thread = 2 THEN stopped ELSE TRUE
    /\ stopped2' = IF thread = 2 THEN Some(TRUE) ELSE stopped2
    /\ cpc' = "s165"
    /\ UNCHANGED <<monitor, sensor_open, pc, locals, main, sensor, clock,
                   history, thread, pc2>>

\* Line 165: self.bpm = 0
stop_bpm ==
    /\ cpc = "s165"
    /\ bpm' = 0
    /\ published' = IF Selecting THEN published \cup {bpm'} ELSE published
    /\ cpc' = "s166"
    /\ UNCHANGED <<spo, hrv_state, hrv_buffer_ir, hrv_start_time, hrv_results,
                   ir_data, red_data, stable_start_time, last_bpm, stopped,
                   sensor_open, pc, locals, calls, mpc, stable_readings,
                   pattern, finger_present, cached, hrv_status, sensor, clock,
                   history, second>>

\* Line 166: self._thread.join(timeout) returns when the thread has ended
\* or the timeout has passed.
stop_join ==
    /\ cpc = "s166"
    /\ cpc' = "idle"
    /\ UNCHANGED <<monitor, stopped, sensor_open, pc, locals, calls, main,
                   sensor, clock, history, second>>

-----------------------------------------------------------------------------
(* A second call of start_sensor (158-161) and the thread it starts *)

\* Line 159: self._thread = threading.Thread(target=self.run_sensor); the
\* new object has no stopped attribute yet.
restart_thread ==
    /\ cpc = "idle"
    /\ thread = 1
    /\ thread' = 2
    /\ stopped2' = None
    /\ cpc' = "r160"
    /\ UNCHANGED <<monitor, stopped, sensor_open, pc, locals, calls, main,
                   sensor, clock, history, pc2>>

\* Lines 160-161: self._thread.stopped = False; self._thread.start()
restart_flag ==
    /\ cpc = "r160"
    /\ stopped2' = Some(FALSE)
    /\ pc2' = "l45"
    /\ cpc' = "idle"
    /\ UNCHANGED <<monitor, stopped, sensor_open, pc, locals, calls, main,
                   sensor, clock, history, thread>>

\* Lines 45-48 in the second thread: its own sensor and history, and the
\* monitor's windows emptied.
run_sensor2_begin ==
    /\ pc2 = "l45"
    /\ ir_data' = <<>>
    /\ red_data' = <<>>
    /\ pc2' = "l51"
    /\ UNCHANGED <<bpm, spo, hrv_state, hrv_buffer_ir, hrv_start_time,
                   hrv_results, stable_start_time, last_bpm, stopped,
                   sensor_open, pc, locals, cpc, calls, main, sensor, clock,
                   history, thread, stopped2>>

\* Line 51 in the second thread.
run_sensor2_loop ==
    /\ pc2 = "l51"
    /\ pc2' = IF Flag = None THEN "raised"
              ELSE IF Flag[1] THEN "l93" ELSE "l53"
    /\ UNCHANGED <<monitor, stopped, sensor_open, pc, locals, cpc, calls,
                   main, sensor, clock, history, thread, stopped2>>

\* Lines 53-54 in the second thread, whose sensor reports no sample.
run_sensor2_poll ==
    /\ pc2 = "l53"
    /\ pc2' = "l91"
    /\ UNCHANGED <<monitor, stopped, sensor_open, pc, locals, cpc, calls,
                   main, sensor, clock, history, thread, stopped2>>

\* Line 91 in the second thread.
run_sensor2_sleep ==
    /\ pc2 = "l91"
    /\ pc2' = "l51"
    /\ UNCHANGED <<monitor, stopped, sensor_open, pc, locals, cpc, calls,
                   main, sensor, clock, history, thread, stopped2>>

\* Line 93 in the second thread.
run_sensor2_shutdown ==
    /\ pc2 = "l93"
    /\ pc2' = "done"
    /\ UNCHANGED <<monitor, stopped, sensor_open, pc, locals, cpc, calls,
                   main, sensor, clock, history, thread, stopped2>>

Restart ==
    \/ restart_thread
    \/ restart_flag
    \/ run_sensor2_begin
    \/ run_sensor2_loop
    \/ run_sensor2_poll
    \/ run_sensor2_sleep
    \/ run_sensor2_shutdown

-----------------------------------------------------------------------------
(* The main loop of pulse.py (23-85), after hrm.start_sensor() *)

\* Lines 24-33 and 49-50: finger_present = hrm.bpm > 0, the counter of
\* consecutive readings with a finger, and alarm.all_off() below the
\* threshold.
main_finger ==
    /\ mpc = "m24"
    /\ pc # "not_started"
    /\ bpm > 0 => stable_readings < MaxReadings
    /\ stable_readings' = IF bpm > 0 THEN stable_readings + 1 ELSE 0
    /\ IF stable_readings' >= STABLE_THRESHOLD
       THEN /\ mpc' = "m34"
            /\ pattern' = pattern
            /\ published' = {bpm}
       ELSE /\ mpc' = "m52"
            /\ pattern' = "off"
            /\ published' = {}
    /\ UNCHANGED <<monitor, stopped, sensor_open, pc, locals, cpc, calls,
                   finger_present, cached, hrv_status, sensor, clock, history,
                   second>>

\* Line 34, left operand: hrm.bpm < 50 drives buzzer and red LED (35-38).
main_low ==
    /\ mpc = "m34"
    /\ IF bpm < BPM_LOW * BpmUnit
       THEN pattern' = "alert" /\ mpc' = "m52"
       ELSE pattern' = pattern /\ mpc' = "m34b"
    /\ UNCHANGED <<monitor, stopped, sensor_open, pc, locals, cpc, calls,
                   stable_readings, published, finger_present, cached,
                   hrv_status, sensor, clock, history, second>>

\* Line 34, right operand: hrm.bpm > 120 drives buzzer and red LED.
main_high ==
    /\ mpc = "m34b"
    /\ IF bpm > BPM_HIGH * BpmUnit
       THEN pattern' = "alert" /\ mpc' = "m52"
       ELSE pattern' = pattern /\ mpc' = "m39"
    /\ UNCHANGED <<monitor, stopped, sensor_open, pc, locals, cpc, calls,
                   stable_readings, published, finger_present, cached,
                   hrv_status, sensor, clock, history, second>>

\* Lines 39-48: hrm.bpm > 90 drives the yellow LED, anything else the green
\* LED.
main_caution ==
    /\ mpc = "m39"
    /\ pattern' = IF bpm > BPM_CAUTION * BpmUnit THEN "caution" ELSE "normal"
    /\ mpc' = "m52"
    /\ UNCHANGED <<monitor, stopped, sensor_open, pc, locals, cpc, calls,
                   stable_readings, published, finger_present, cached,
                   hrv_status, sensor, clock, history, second>>

\* Lines 52-85 while hrv_state is not READY: the loop reads the monitor for
\* the display, sleeps and starts its next iteration.
main_display ==
    /\ mpc = "m52"
    /\ hrv_state # HRV_READY
    /\ published' = {}
    /\ mpc' = "m24"
    /\ UNCHANGED <<monitor, stopped, sensor_open, pc, locals, cpc, calls,
                   stable_readings, pattern, finger_present, cached,
                   hrv_status, sensor, clock, history, second>>

-----------------------------------------------------------------------------
(* The main loop of pulse.py as the consumer of the HRV results: line 24 and
   lines 52-85.  Lines 27-50 drive the alarm from hrm.bpm (main_finger to
   main_caution above) and write nothing that lines 52-85 read. *)

\* Line 24: finger_present = hrm.bpm > 0
main_present ==
    /\ mpc = "m24"
    /\ pc # "not_started"
    /\ finger_present' = (bpm > 0)
    /\ mpc' = "m53"
    /\ UNCHANGED <<monitor, stopped, sensor_open, pc, locals, cpc, calls,
                   stable_readings, pattern, published, cached, hrv_status,
                   sensor, clock, history, second>>

\* Lines 53-54: the cached results are dropped when the finger is away.
main_clear ==
    /\ mpc = "m53"
    /\ cached' = IF finger_present THEN cached ELSE None
    /\ mpc' = "m56"
    /\ UNCHANGED <<monitor, stopped, sensor_open, pc, locals, cpc, calls,
                   stable_readings, pattern, published, finger_present,
                   hrv_status, sensor, clock, history, second>>

\* Line 56: if hrm.hrv_state == HRV_READY
main_ready_test ==
    /\ mpc = "m56"
    /\ mpc' = IF hrv_state = HRV_READY THEN "m57" ELSE "m66"
    /\ UNCHANGED <<monitor, stopped, sensor_open, pc, locals, cpc, calls,
                   stable_readings, pattern, published, finger_present,
                   cached, hrv_status, sensor, clock, history, second>>

\* Lines 57-63 where line 59 is left out: the results are printed and not
\* cached.
main_results_uncached ==
    /\ mpc = "m57"
    /\ cached' = cached
    /\ mpc' = "m64"
    /\ UNCHANGED <<monitor, stopped, sensor_open, pc, locals, cpc, calls,
                   stable_readings, pattern, published, finger_present,
                   hrv_status, sensor, clock, history, second>>

\* Lines 57-63: results = hrm.hrv_results, cached (and printed) when they
\* are there and valid.
main_results ==
    /\ mpc = "m57"
    /\ cached' = IF hrv_results # None /\ hrv_results[1].valid
                 THEN hrv_results ELSE cached
    /\ mpc' = "m64"
    /\ UNCHANGED <<monitor, stopped, sensor_open, pc, locals, cpc, calls,
                   stable_readings, pattern, published, finger_present,
                   hrv_status, sensor, clock, history, second>>

\* Line 64: hrm.acknowledge_hrv(), up to its line 144.
main_acknowledge ==
    /\ mpc = "m64"
    /\ cpc = "idle"
    /\ acked' = hrv_state
    /\ hrv_state' = HRV_IDLE
    /\ cpc' = "a145"
    /\ mpc' = "m65"
    /\ UNCHANGED <<bpm, spo, hrv_buffer_ir, hrv_start_time, hrv_results,
                   ir_data, red_data, stable_start_time, last_bpm, stopped,
                   sensor_open, pc, locals, calls, stable_readings, pattern,
                   published, finger_present, cached, hrv_status, sensor,
                   clock, readings, computed, bpm_before, discarded, due, hrs,
                   second>>

\* The call of line 64 has returned.
main_acknowledged ==
    /\ mpc = "m65"
    /\ cpc = "idle"
    /\ mpc' = "m66"
    /\ UNCHANGED <<monitor, stopped, sensor_open, pc, locals, cpc, calls,
                   stable_readings, pattern, published, finger_present,
                   cached, hrv_status, sensor, clock, history, second>>

\* Lines 66-85: the status for the display, the display update and the
\* sleep.
main_show ==
    /\ mpc = "m66"
    /\ hrv_status' = IF cached # None THEN "ready"
                     ELSE IF hrv_state = HRV_COLLECTING THEN "collecting"
                     ELSE "idle"
    /\ mpc' = "m24"
    /\ UNCHANGED <<monitor, stopped, sensor_open, pc, locals, cpc, calls,
                   stable_readings, pattern, published, finger_present,
                   cached, sensor, clock, history, second>>

MainLoop ==
    \/ main_present
    \/ main_clear
    \/ main_ready_test
    \/ main_results
    \/ main_acknowledge
    \/ acknowledge_results
    \/ acknowledge_buffer
    \/ acknowledge_anchor
    \/ main_acknowledged
    \/ main_show

-----------------------------------------------------------------------------
(* The clock *)

\* Time passes before the clock is read at lines 107 and 125, and before
\* line 121, the branch that goes before the reading at line 125.
Tick ==
    /\ pc \in {"u107", "u121", "u125"}
    /\ ticks < MaxTicks
    /\ \E d \in TickSizes : now' = now + d
    /\ ticks' = ticks + 1
    /\ UNCHANGED <<monitor, stopped, sensor_open, pc, locals, cpc, calls,
                   main, sensor, history, second>>

\* Time passes as in Tick, between the calls of the main loop: a call of
\* acknowledge_hrv is four assignments, the clock counts seconds.
Tick_between_calls ==
    /\ cpc = "idle"
    /\ pc \in {"u107", "u121", "u125"}
    /\ ticks < MaxTicks
    /\ \E d \in TickSizes : now' = now + d
    /\ ticks' = ticks + 1
    /\ UNCHANGED <<monitor, stopped, sensor_open, pc, locals, cpc, calls,
                   main, sensor, history, second>>

\* Time passes while the thread sleeps at line 91.
Wait ==
    /\ pc = "l91"
    /\ ticks < MaxTicks
    /\ \E d \in WaitSizes : now' = now + d
    /\ ticks' = ticks + 1
    /\ UNCHANGED <<monitor, stopped, sensor_open, pc, locals, cpc, calls,
                   main, sensor, history, second>>

-----------------------------------------------------------------------------
(* Specifications *)

Drain ==
    \/ run_sensor_begin
    \/ run_sensor_loop
    \/ run_sensor_poll
    \/ run_sensor_read_burst
    \/ run_sensor_read
    \/ run_sensor_collect
    \/ run_sensor_trim
    \/ run_sensor_sleep

Acknowledge ==
    \/ acknowledge_state
    \/ acknowledge_results
    \/ acknowledge_buffer
    \/ acknowledge_anchor

Stop ==
    \/ stop_flag
    \/ stop_bpm
    \/ stop_join
    \/ run_sensor_shutdown

\* The program as written: every full window ends the thread at line 74, so
\* bpm stays 0 and _update_hrv_state only ever takes its idle, no finger
\* path.
Next ==
    \/ start_sensor
    \/ Drain
    \/ run_sensor_evaluate
    \/ update_finger
    \/ update_idle_test
    \/ update_anchor_clear
    \/ sensor_fails
    \/ Acknowledge
    \/ Stop

Spec == Init /\ [][Next]_vars

\* The program as written with a caller that may call start_sensor a second
\* time.
NextRestart ==
    \/ start_sensor
    \/ Drain
    \/ run_sensor_evaluate
    \/ update_finger
    \/ update_idle_test
    \/ update_anchor_clear
    \/ sensor_fails
    \/ Acknowledge
    \/ Stop
    \/ Restart

SpecRestart == Init /\ [][NextRestart]_vars

\* The monitor with a pipeline that delivers the four values run_sensor
\* unpacks, and a consumer that acknowledges: the state machine beyond the
\* first full window.
NextMonitor ==
    \/ start_sensor
    \/ Drain
    \/ run_sensor_estimate
    \/ run_sensor_spo
    \/ run_sensor_bpm
    \/ run_sensor_override
    \/ update_finger
    \/ update_idle_test
    \/ update_anchor_test
    \/ update_anchor_time
    \/ update_anchor_bpm
    \/ update_stable_test
    \/ update_duration
    \/ update_collect_state
    \/ update_collect_buffer
    \/ update_collect_start
    \/ update_anchor_clear
    \/ update_collecting_test
    \/ update_lost_state
    \/ update_lost_buffer
    \/ update_lost_anchor
    \/ update_elapsed
    \/ calculate_results
    \/ calculate_present
    \/ calculate_valid
    \/ calculate_ready
    \/ calculate_idle
    \/ calculate_anchor
    \/ Acknowledge
    \/ Tick

SpecMonitor == Init /\ [][NextMonitor]_vars

\* The acquisition thread alone, with time passing between its cycles.
NextCycle ==
    \/ start_sensor
    \/ Drain
    \/ run_sensor_estimate
    \/ run_sensor_spo
    \/ run_sensor_bpm
    \/ run_sensor_override
    \/ update_finger
    \/ update_idle_test
    \/ update_anchor_test
    \/ update_anchor_time
    \/ update_anchor_bpm
    \/ update_stable_test
    \/ update_duration
    \/ update_collect_state
    \/ update_collect_buffer
    \/ update_collect_start
    \/ update_anchor_clear
    \/ update_collecting_test
    \/ update_lost_state
    \/ update_lost_buffer
    \/ update_lost_anchor
    \/ update_elapsed
    \/ calculate_results
    \/ calculate_present
    \/ calculate_valid
    \/ calculate_ready
    \/ calculate_idle
    \/ calculate_anchor
    \/ Tick
    \/ Wait

SpecCycle == Init /\ [][NextCycle]_vars

\* The acquisition thread with the main loop of pulse.py as its consumer,
\* in the time before the stability anchor is 2 seconds old.
NextAlarm ==
    \/ start_sensor
    \/ Drain
    \/ run_sensor_estimate
    \/ run_sensor_spo
    \/ run_sensor_bpm
    \/ run_sensor_override
    \/ update_finger
    \/ update_idle_test
    \/ update_anchor_test
    \/ update_anchor_time
    \/ update_anchor_bpm
    \/ update_stable_test
    \/ update_duration
    \/ update_anchor_clear
    \/ main_finger
    \/ main_low
    \/ main_high
    \/ main_caution
    \/ main_display

SpecAlarm == Init /\ [][NextAlarm]_vars

\* The acquisition thread alone and without the clock, with the evaluation
\* completing, over a run long enough for the bpm history to overflow.
NextHistory ==
    \/ start_sensor
    \/ run_sensor_begin
    \/ run_sensor_loop
    \/ run_sensor_poll_history
    \/ run_sensor_read_burst
    \/ run_sensor_read
    \/ run_sensor_collect
    \/ run_sensor_trim
    \/ run_sensor_sleep
    \/ run_sensor_estimate
    \/ run_sensor_spo
    \/ run_sensor_bpm
    \/ run_sensor_override
    \/ update_finger
    \/ update_idle_test
    \/ update_anchor_test
    \/ update_anchor_time
    \/ update_anchor_bpm
    \/ update_stable_test
    \/ update_duration
    \/ update_anchor_clear

SpecHistory == Init /\ [][NextHistory]_vars

\* The acquisition thread without the clock, with the evaluation completing,
\* and a caller of stop_sensor.
NextStop ==
    \/ start_sensor
    \/ Drain
    \/ run_sensor_estimate
    \/ run_sensor_spo
    \/ run_sensor_bpm
    \/ run_sensor_override
    \/ update_finger
    \/ update_idle_test
    \/ update_anchor_test
    \/ update_anchor_time
    \/ update_anchor_bpm
    \/ update_stable_test
    \/ update_duration
    \/ update_anchor_clear
    \/ Stop

SpecStop == Init /\ [][NextStop]_vars

\* The signals of a measurement that is followed to its HRV results: a
\* finger at rest, and a window without a finger.
PulseSignals == {Resting, Noise}

run_sensor_poll_pulse == Poll(PulseSignals, MaxDrains)

\* The acquisition thread with the main loop of pulse.py as the consumer of
\* the HRV results.
NextPulse ==
    \/ start_sensor
    \/ run_sensor_begin
    \/ run_sensor_loop
    \/ run_sensor_poll_pulse
    \/ run_sensor_read_burst
    \/ run_sensor_read
    \/ run_sensor_collect
    \/ run_sensor_trim
    \/ run_sensor_sleep
    \/ run_sensor_estimate
    \/ run_sensor_spo
    \/ run_sensor_bpm
    \/ run_sensor_override
    \/ update_finger
    \/ update_idle_test
    \/ update_anchor_test
    \/ update_anchor_time
    \/ update_anchor_bpm
    \/ update_stable_test
    \/ update_duration
    \/ update_collect_state
    \/ update_collect_buffer
    \/ update_collect_start
    \/ update_anchor_clear
    \/ update_collecting_test
    \/ update_lost_state
    \/ update_lost_buffer
    \/ update_lost_anchor
    \/ update_elapsed
    \/ calculate_results
    \/ calculate_present
    \/ calculate_valid
    \/ calculate_ready
    \/ calculate_idle
    \/ calculate_anchor
    \/ Tick_between_calls
    \/ MainLoop

SpecPulse == Init /\ [][NextPulse]_vars

\* The main loop is a thread of its own that the interpreter keeps
\* scheduling: whichever of its steps is next is eventually taken.
SpecPulseFair == SpecPulse /\ WF_vars(MainLoop)
-----------------------------------------------------------------------------
(* Properties *)

\* _update_hrv_state is about to run after a window evaluation of this cycle.
Evaluated == pc = "l89" /\ result # <<>>

\* self.bpm is what lines 79-85 make of this window's hr: the hr is the
\* newest entry of the history, and bpm is the mean of the history, or 0 on
\* a window without a finger.
FromWindow ==
    /\ bpms # <<>>
    /\ bpms[Len(bpms)] = result[1]
    /\ bpm = IF NoFinger(ir_data, red_data) THEN 0 ELSE Mean(bpms)

C6_EvaluationCompletes == pc # "raised" /\ (pc = "done" => stopped)

\* C7: in every state, and so whenever the consumer reads ir_data, the
\* window holds at most 100 samples.
C7_WindowCapacity == Len(ir_data) <= BUFFER_SIZE

C15_FullWindowOnly ==
    /\ Len(ir_data) = Len(red_data)
    /\ pc = "l74" =>
        (Len(ir_data) = BUFFER_SIZE /\ Len(red_data) = BUFFER_SIZE)

\* C15 witness: the pipeline is called on a window that was filled by more
\* than one drain, after drains that left fewer than 100 samples.
C15_Witness == pc = "l74" /\ drains > 1 /\ Len(ir_data) = BUFFER_SIZE

\* C16: whenever the acquisition loop has terminated with every sensor call
\* having returned, on the stop flag or otherwise, sensor.shutdown() has
\* been called.
C16_StopReleases == pc \in {"done", "raised"} => ~sensor_open

\* C17: the step in which a failing driver call ends the acquisition loop
\* changes a field that a consumer can read (a field of the monitor or the
\* stop flag), so that the state after the failure differs from the state
\* of the running loop before it.
C17_FailureObservable ==
    [][ (pc # "failed" /\ pc' = "failed")
          => <<monitor, stopped>>' # <<monitor, stopped>> ]_vars

Deviation10 == 10 * Abs(bpm - last_bpm)

Band(v) ==
    IF v < BPM_LOW * BpmUnit \/ v > BPM_HIGH * BpmUnit THEN "alert"
    ELSE IF v > BPM_CAUTION * BpmUnit THEN "caution"
    ELSE "normal"

get_hrv_progress ==
    IF hrv_state # HRV_COLLECTING \/ hrv_start_time = None
    THEN <<0, HRV_DURATION, 0>>
    ELSE LET passed == now - hrv_start_time[1]
             percentage == (passed * 100) \div HRV_DURATION
         IN  <<passed, HRV_DURATION,
               IF percentage < 100 THEN percentage ELSE 100>>

\* The acquisition thread has executed line 110 and has not yet completed
\* line 112: the collection that hrv_state announces begins now.
Entering == pc \in {"u111", "u112"}

Running(p) == p \notin {"not_started", "done", "raised", "failed"}

\* C24: a stop request is never lost and at most one acquisition loop runs at
\* a time, also when stop_sensor() returns on its join timeout and
\* start_sensor() follows.  Once stop_sensor has set the flag of the first
\* thread, that thread does not pass the test of line 51 into another
\* iteration, and no second loop runs next to it.
C24_StopKeptOneLoop ==
    [][ stopped' => /\ ~(pc = "l51" /\ pc' = "l53")
                    /\ ~(Running(pc') /\ Running(pc2')) ]_vars

\* With the main loop as the only caller of acknowledge_hrv: when the loop
\* has seen READY at line 56 a valid result is there to read, and when it
\* calls acknowledge_hrv, and when line 145 is about to drop the result, that
\* result is the one the loop has cached.
Captured ==
    /\ mpc = "m57" => (hrv_results # None /\ hrv_results[1].valid)
    /\ mpc = "m64" => (cached # None /\ cached = hrv_results)
    /\ cpc = "a145" => (cached # None /\ cached = hrv_results)

====
